---- MODULE Spec2Model ----
(***************************************************************************)
(* Evaluation of the module config/mainnets/celo.ts of optics-deploy: the  *)
(* environment is read, the RPC endpoint is checked, and the chain         *)
(* description, the chain, the core configuration and the bridge           *)
(* configuration are bound and exported, one statement after the other.    *)
(*                                                                         *)
(* A JavaScript value that may be undefined is a record                    *)
(* [defined, str]; a binding that has not been initialised yet is the      *)
(* empty sequence and an initialised one is a sequence of length one.      *)
(***************************************************************************)
EXTENDS Integers, Sequences, FiniteSets, TLC

\* ---------------------------------------------------------------- bounds

\* How many distinct non-empty RPC endpoint strings the environment may hold.
NumRpc == 2
\* How many distinct non-empty deployer key strings the environment may hold.
NumKey == 2

RpcPool ==
    << "https://forno.celo.org", "http://localhost:8545",
       "wss://forno.celo.org/ws", "https://celo.example.org" >>

KeyPool ==
    << "0x0123456789abcdef", "0xfedcba9876543210", "0xdeadbeef", "0xcafe" >>

\* ------------------------------------------------------------ JS values

Undefined == [defined |-> FALSE, str |-> ""]

Str(s) == [defined |-> TRUE, str |-> s]

None == << >>

Some(x) == << x >>

RpcValues ==
    {Undefined, Str("")} \cup {Str(RpcPool[i]) : i \in 1 .. NumRpc}

KeyValues ==
    {Undefined, Str("")} \cup {Str(KeyPool[i]) : i \in 1 .. NumKey}

EnvKeys == {"CELO_RPC", "CELO_DEPLOYER_KEY"}

\* The environments the process can be started in, and the contents a .env
\* file can have (all keys undefined: no file).
Environments ==
    {e \in [EnvKeys -> RpcValues \cup KeyValues] :
        /\ e["CELO_RPC"] \in RpcValues
        /\ e["CELO_DEPLOYER_KEY"] \in KeyValues}

\* ------------------------------------------------------------ variables

VARIABLES
    pc,            \* the statement the evaluation of the module has reached
    processEnv,    \* process.env
    envFile,       \* the parsed .env file dotenv.config() reads
    rpc,           \* const rpc
    chainJson,     \* export const chainJson
    chain,         \* export const chain
    config,        \* export const config
    bridgeConfig,  \* export const bridgeConfig
    thrown,        \* the message of the error the evaluation threw
    toChainCalls,  \* how often toChain was called
    exported       \* what the importing module receives

vars ==
    << pc, processEnv, envFile, rpc, chainJson, chain, config, bridgeConfig,
       thrown, toChainCalls, exported >>

\* ------------------------------------------------------- pure functions

\* dotenv.config(): every key of the .env file that process.env does not
\* already have is added; a key process.env has is never overridden.
DotenvConfig(env, file) ==
    [k \in EnvKeys |-> IF env[k].defined THEN env[k] ELSE file[k]]

\* !v of JavaScript for a string-or-undefined v.
FalsyOnlyUndefined(v) == ~v.defined

Falsy(v) == ~v.defined \/ v.str = ""

MissingRpcMessage == "Missing RPC URI"

\* if (!rpc) { throw ... }: where the evaluation goes after the check.
AfterCheckNoThrow(v) == "checked"

AfterCheck(v) == IF Falsy(v) THEN "failed" ELSE "checked"

\* The bytes of "eth" instead of "celo".
celoDomainEth == 101 * 65536 + 116 * 256 + 104

\* 0x63656c6f
celoDomain == 1667591279

ChainJsonKeyFromRpc(r, env) ==
    [name |-> "celo",
     rpc |-> r,
     deployerKey |-> env["CELO_RPC"],
     domain |-> celoDomain]

ChainJsonOf(r, env) ==
    [name |-> "celo",
     rpc |-> r,
     deployerKey |-> env["CELO_DEPLOYER_KEY"],
     domain |-> celoDomain]

\* toChain of src/chain: the chain descriptor of a chain description; fails
\* when the RPC endpoint is undefined or empty.
toChain(json) ==
    IF ~json.rpc.defined \/ json.rpc.str = ""
    THEN [ok |-> FALSE, error |-> "MissingRequiredField: rpcEndpoint",
          value |-> None]
    ELSE [ok |-> TRUE, error |-> "",
          value |-> Some([name |-> json.name,
                          domain |-> json.domain,
                          rpcEndpoint |-> json.rpc.str,
                          deployerKey |-> json.deployerKey])]

CoreConfigZeroTimelock ==
    [environment |-> "prod",
     updater |-> "0xDB2091535eb0Ee447Ce170DDC25204FEA822dd81",
     recoveryTimelock |-> 0,
     recoveryManager |-> "0x3D9330014952Bf0A3863FEB7a657bfFA5C9D40B9",
     optimisticSeconds |-> 60 * 60 * 3,
     watchers |-> << "0xeE42B7757798cf495CDaA8eDb0CC237F07c60C81" >>,
     processGas |-> 850000,
     reserveGas |-> 15000]

CoreConfigBadWatchers ==
    [environment |-> "prod",
     updater |-> "0xDB2091535eb0Ee447Ce170DDC25204FEA822dd81",
     recoveryTimelock |-> 60 * 60 * 24,
     recoveryManager |-> "0x3D9330014952Bf0A3863FEB7a657bfFA5C9D40B9",
     optimisticSeconds |-> 60 * 60 * 3,
     watchers |-> << "0xeE42B7757798cf495CDaA8eDb0CC237F07c60C81",
                     "0xeE42B7757798cf495CDaA8eDb0CC237F07c60C81" >>,
     processGas |-> 850000,
     reserveGas |-> 15000]

CoreConfig ==
    [environment |-> "prod",
     updater |-> "0xDB2091535eb0Ee447Ce170DDC25204FEA822dd81",
     recoveryTimelock |-> 60 * 60 * 24,
     recoveryManager |-> "0x3D9330014952Bf0A3863FEB7a657bfFA5C9D40B9",
     optimisticSeconds |-> 60 * 60 * 3,
     watchers |-> << "0xeE42B7757798cf495CDaA8eDb0CC237F07c60C81" >>,
     processGas |-> 850000,
     reserveGas |-> 15000]

\* {}: the record with no fields.
BridgeConfig == [k \in {} |-> ""]

\* ---------------------------------------------------------------- steps

Init ==
    /\ pc = "start"
    /\ processEnv \in Environments
    /\ envFile \in Environments
    /\ rpc = Undefined
    /\ chainJson = None
    /\ chain = None
    /\ config = None
    /\ bridgeConfig = None
    /\ thrown = ""
    /\ toChainCalls = 0
    /\ exported = None

\* dotenv.config();
LoadDotenv ==
    /\ pc = "start"
    /\ processEnv' = DotenvConfig(processEnv, envFile)
    /\ pc' = "dotenv"
    /\ UNCHANGED << envFile, rpc, chainJson, chain, config, bridgeConfig,
                    thrown, toChainCalls, exported >>

\* const rpc = process.env.CELO_RPC;
ReadRpc ==
    /\ pc = "dotenv"
    /\ rpc' = processEnv["CELO_RPC"]
    /\ pc' = "rpc"
    /\ UNCHANGED << processEnv, envFile, chainJson, chain, config,
                    bridgeConfig, thrown, toChainCalls, exported >>

\* if (!rpc) { throw new Error('Missing RPC URI'); }
CheckRpc ==
    /\ pc = "rpc"
    /\ pc' = AfterCheck(rpc)
    /\ thrown' = IF Falsy(rpc) THEN MissingRpcMessage ELSE thrown
    /\ UNCHANGED << processEnv, envFile, rpc, chainJson, chain, config,
                    bridgeConfig, toChainCalls, exported >>

\* export const chainJson: ChainJson = { ... };
BuildChainJson ==
    /\ pc = "checked"
    /\ chainJson' = Some(ChainJsonOf(rpc, processEnv))
    /\ pc' = "chainJson"
    /\ UNCHANGED << processEnv, envFile, rpc, chain, config, bridgeConfig,
                    thrown, toChainCalls, exported >>

\* export const chain = toChain(chainJson);
BuildChain ==
    /\ pc = "chainJson"
    /\ toChainCalls' = toChainCalls + 1
    /\ LET r == toChain(chainJson[1])
       IN  /\ chain' = r.value
           /\ thrown' = IF r.ok THEN thrown ELSE r.error
           /\ pc' = IF r.ok THEN "chain" ELSE "failed"
    /\ UNCHANGED << processEnv, envFile, rpc, chainJson, config,
                    bridgeConfig, exported >>

\* export const config: CoreConfig = { ... };
BuildConfig ==
    /\ pc = "chain"
    /\ config' = Some(CoreConfig)
    /\ pc' = "config"
    /\ UNCHANGED << processEnv, envFile, rpc, chainJson, chain,
                    bridgeConfig, thrown, toChainCalls, exported >>

\* export const bridgeConfig: BridgeConfig = {};  The evaluation of the
\* module ends and the importing module receives the exports.
BuildBridgeConfig ==
    /\ pc = "config"
    /\ bridgeConfig' = Some(BridgeConfig)
    /\ exported' = Some([chainJson |-> chainJson[1],
                         chain |-> chain[1],
                         config |-> config[1],
                         bridgeConfig |-> BridgeConfig])
    /\ pc' = "done"
    /\ UNCHANGED << processEnv, envFile, rpc, chainJson, chain, config,
                    thrown, toChainCalls >>

Next ==
    \/ LoadDotenv
    \/ ReadRpc
    \/ CheckRpc
    \/ BuildChainJson
    \/ BuildChain
    \/ BuildConfig
    \/ BuildBridgeConfig

Spec == Init /\ [][Next]_vars

\* --------------------------------------------------------------- claims

HexChars ==
    {"0", "1", "2", "3", "4", "5", "6", "7", "8", "9",
     "a", "b", "c", "d", "e", "f", "A", "B", "C", "D", "E", "F"}

\* An address is 0x followed by forty hexadecimal digits.
WellFormedAddress(a) ==
    /\ Len(a) = 42
    /\ SubSeq(a, 1, 2) = "0x"
    /\ \A i \in 3 .. 42 : SubSeq(a, i, i) \in HexChars

LowerCase == "abcdefghijklmnopqrstuvwxyz"

\* The ASCII code of a lower-case letter.
AsciiCode(ch) == 96 + (CHOOSE i \in 1 .. 26 : SubSeq(LowerCase, i, i) = ch)

\* The big-endian integer whose bytes are the ASCII codes of the tag.
RECURSIVE BigEndian(_)
BigEndian(tag) ==
    IF Len(tag) = 0
    THEN 0
    ELSE 256 * BigEndian(SubSeq(tag, 1, Len(tag) - 1))
         + AsciiCode(SubSeq(tag, Len(tag), Len(tag)))

PastCheck == pc \notin {"start", "dotenv", "rpc"}

\* C1: once the RPC check has run, the load has failed with the error
\* 'Missing RPC URI' exactly when CELO_RPC is absent or the empty string; a
\* failed load has built no chain description (no default endpoint) and takes
\* no further step (no retry); with a non-empty CELO_RPC that error is never
\* thrown and the endpoint in use is the value of the environment.
C1_MissingRpcFails ==
    /\ PastCheck =>
          LET v == processEnv["CELO_RPC"]
          IN  /\ (~v.defined \/ v.str = "") =>
                    /\ pc = "failed"
                    /\ thrown = "Missing RPC URI"
                    /\ chainJson = None
              /\ (v.defined /\ v.str # "") =>
                    /\ thrown # "Missing RPC URI"
                    /\ rpc = v
    /\ pc = "failed" => ~ENABLED Next

C1_Witness ==
    /\ pc = "failed"
    /\ thrown = "Missing RPC URI"
    /\ processEnv["CELO_RPC"] = Str("")

\* C2: the importing module receives either all of chainJson, chain, config
\* and bridgeConfig (the load is done) or nothing (before the end of the load
\* and after a failure); every load ends in one of the two; and when the RPC
\* check fails toChain is never called and no chain description, chain, core
\* or bridge configuration is built.
C2_AllOrNothing ==
    /\ (exported # None) <=> (pc = "done")
    /\ pc = "done" =>
          /\ chainJson # None /\ chain # None
          /\ config # None /\ bridgeConfig # None
          /\ exported[1].chainJson = chainJson[1]
          /\ exported[1].chain = chain[1]
          /\ exported[1].config = config[1]
          /\ exported[1].bridgeConfig = bridgeConfig[1]
    /\ thrown = "Missing RPC URI" =>
          /\ toChainCalls = 0
          /\ chainJson = None /\ chain = None
          /\ config = None /\ bridgeConfig = None
          /\ exported = None
    /\ pc \notin {"done", "failed"} => ENABLED Next

C2_Witness ==
    /\ pc = "failed"
    /\ ~processEnv["CELO_RPC"].defined
    /\ processEnv["CELO_DEPLOYER_KEY"].defined
    /\ toChainCalls = 0
    /\ exported = None

NoDuplicates(ws) ==
    \A i, j \in 1 .. Len(ws) : ws[i] = ws[j] => i = j

\* C4: the core configuration of celo satisfies every validation rule:
\* updater and recoveryManager are well-formed addresses, recoveryTimelock is
\* 86400 and optimisticSeconds 10800 (both >= 0), the watchers are a non-empty
\* list of well-formed addresses without a repetition, processGas is
\* 850000 > 0 and reserveGas 15000 >= 0.
C4_ConfigValid ==
    config # None =>
        LET c == config[1]
        IN  /\ WellFormedAddress(c.updater)
            /\ WellFormedAddress(c.recoveryManager)
            /\ c.recoveryTimelock = 86400 /\ c.recoveryTimelock >= 0
            /\ c.optimisticSeconds = 10800 /\ c.optimisticSeconds >= 0
            /\ Len(c.watchers) > 0
            /\ \A i \in 1 .. Len(c.watchers) : WellFormedAddress(c.watchers[i])
            /\ NoDuplicates(c.watchers)
            /\ c.processGas = 850000 /\ c.processGas > 0
            /\ c.reserveGas = 15000 /\ c.reserveGas >= 0

C4_Witness ==
    /\ pc = "config"
    /\ config # None
    /\ Len(config[1].watchers) = 1

\* C9: every core configuration that is built or exported with the
\* environment prod has a recovery timelock greater than zero.
C9_ProdTimelockPositive ==
    /\ config # None =>
          (config[1].environment = "prod" => config[1].recoveryTimelock > 0)
    /\ exported # None =>
          (exported[1].config.environment = "prod"
              => exported[1].config.recoveryTimelock > 0)

C9_Witness ==
    /\ exported # None
    /\ exported[1].config.environment = "prod"

\* C10: with a non-empty CELO_RPC the load never fails and runs to its end,
\* whether or not CELO_DEPLOYER_KEY is set; the exported chainJson carries
\* CELO_RPC and CELO_DEPLOYER_KEY (undefined when unset) unchanged, and its
\* name and domain, the core configuration and the empty bridge configuration
\* are the same for every environment.
C10_OnlyRpcAndKeyDependOnEnv ==
    /\ (PastCheck /\ processEnv["CELO_RPC"].defined
                  /\ processEnv["CELO_RPC"].str # "") =>
          /\ pc # "failed"
          /\ pc # "done" => ENABLED Next
    /\ pc = "done" =>
          LET j == exported[1].chainJson
          IN  /\ j.rpc = processEnv["CELO_RPC"]
              /\ j.deployerKey = processEnv["CELO_DEPLOYER_KEY"]
              /\ j.name = "celo"
              /\ j.domain = 1667591279
              /\ exported[1].config.environment = "prod"
              /\ exported[1].config.recoveryTimelock = 86400
              /\ exported[1].config.optimisticSeconds = 10800
              /\ exported[1].config.processGas = 850000
              /\ exported[1].config.reserveGas = 15000
              /\ exported[1].config.updater
                    = "0xDB2091535eb0Ee447Ce170DDC25204FEA822dd81"
              /\ exported[1].config.recoveryManager
                    = "0x3D9330014952Bf0A3863FEB7a657bfFA5C9D40B9"
              /\ exported[1].config.watchers
                    = << "0xeE42B7757798cf495CDaA8eDb0CC237F07c60C81" >>
              /\ DOMAIN exported[1].bridgeConfig = {}

C10_Witness ==
    /\ pc = "done"
    /\ ~processEnv["CELO_DEPLOYER_KEY"].defined
    /\ ~exported[1].chainJson.deployerKey.defined

====
